---------------------------- MODULE Spec2Model ----------------------------
(***************************************************************************)
(* Model of the ledger normalisation / scoring / validation engine         *)
(* (src/src/schema.py, src/src/validation.py) and of the extraction        *)
(* pipeline that feeds it (src/src/extraction.py).                         *)
(*                                                                         *)
(* Python text is modelled as a sequence of characters (each character a   *)
(* one-element string; the non-ASCII characters carry their code point as  *)
(* name), so that str(), strip(), lower(), float(), int(), isdigit() and   *)
(* the two regular expressions are computed rather than assumed.           *)
(* A Python exception that leaves a function is an outcome of the          *)
(* function: it is modelled as a result tagged with the exception's name.  *)
(***************************************************************************)
EXTENDS Integers, Sequences, FiniteSets, TLC

VARIABLES
    args,       \* the positional arguments of the scalar function under call
    row,        \* the row (pd.Series) under call
    df_page,    \* the page (pd.DataFrame) under call: a sequence of rows
    locals,     \* the local variables of a function that runs step by step
    ret,        \* what the call returned (or the exception it raised)
    pc          \* "start" before the call, the function's name after it

vars == <<args, row, df_page, locals, ret, pc>>

Nil == [k |-> "nil"]

---------------------------------------------------------------------------
(* Characters and text *)

GLYPH_QUARTER == "U+00BC"
GLYPH_HALF == "U+00BD"
GLYPH_THREEQ == "U+00BE"
SUPERSCRIPT_TWO == "U+00B2"

DecimalChars == {"0", "1", "2", "3", "4", "5", "6", "7", "8", "9"}

\* int() of one decimal character
DigitVal(c) ==
    CASE c = "0" -> 0 [] c = "1" -> 1 [] c = "2" -> 2 [] c = "3" -> 3
      [] c = "4" -> 4 [] c = "5" -> 5 [] c = "6" -> 6 [] c = "7" -> 7
      [] c = "8" -> 8 [] c = "9" -> 9

DigitChar(d) ==
    CASE d = 0 -> "0" [] d = 1 -> "1" [] d = 2 -> "2" [] d = 3 -> "3"
      [] d = 4 -> "4" [] d = 5 -> "5" [] d = 6 -> "6" [] d = 7 -> "7"
      [] d = 8 -> "8" [] d = 9 -> "9"

\* str.lower() of one character (identity on characters without case)
LowerChar(c) ==
    CASE c = "N" -> "n" [] c = "Q" -> "q" [] c = "D" -> "d"
      [] c = "O" -> "o" [] c = "B" -> "b" [] c = "I" -> "i"
      [] OTHER -> c

\* str.lower()
Lower(s) == [i \in 1..Len(s) |-> LowerChar(s[i])]

IsSpace(c) == c = " "

RECURSIVE LStrip(_)
LStrip(s) ==
    IF s # <<>> /\ IsSpace(Head(s)) THEN LStrip(Tail(s)) ELSE s

RECURSIVE RStrip(_)
RStrip(s) ==
    IF s # <<>> /\ IsSpace(s[Len(s)]) THEN RStrip(SubSeq(s, 1, Len(s) - 1)) ELSE s

\* str.strip()
Strip(s) == RStrip(LStrip(s))

\* str.isdigit(): non-empty and every character has the Unicode property
\* Digit, which the superscript digits have as well as the decimal ones
IsDigit(s) ==
    /\ s # <<>>
    /\ \A i \in 1..Len(s) : s[i] \in DecimalChars \cup {SUPERSCRIPT_TWO}

AllDecimal(s) == \A i \in 1..Len(s) : s[i] \in DecimalChars

\* the value of a string of decimal characters
RECURSIVE DecimalValue(_)
DecimalValue(s) ==
    IF s = <<>> THEN 0
    ELSE 10 * DecimalValue(SubSeq(s, 1, Len(s) - 1)) + DigitVal(s[Len(s)])

\* str(n) of a natural number
RECURSIVE NatToText(_)
NatToText(n) ==
    IF n < 10 THEN <<DigitChar(n)>>
    ELSE NatToText(n \div 10) \o <<DigitChar(n % 10)>>

\* str(n) of an int
IntToText(n) == IF n < 0 THEN <<"-">> \o NatToText(0 - n) ELSE NatToText(n)

\* All texts of at most n characters over an alphabet
TextsUpTo(alphabet, n) == UNION {[1..k -> alphabet] : k \in 0..n}

---------------------------------------------------------------------------
(* Python values held in a cell of a row *)

VNone == [k |-> "None", n |-> 0, s |-> <<>>]
VNaN == [k |-> "NaN", n |-> 0, s |-> <<>>]
VMissing == [k |-> "missing", n |-> 0, s |-> <<>>]
VInt(n) == [k |-> "int", n |-> n, s |-> <<>>]
VStr(s) == [k |-> "str", n |-> 0, s |-> s]

\* str(value)
PyStr(v) ==
    CASE v.k = "None" -> <<"N", "o", "n", "e">>
      [] v.k = "NaN" -> <<"n", "a", "n">>
      [] v.k = "int" -> IntToText(v.n)
      [] v.k = "str" -> v.s

\* row.get(col): None when the row has no such column
RowGet(v) == IF v.k = "missing" THEN VNone ELSE v

\* row.get(col, ""): the empty text when the row has no such column
RowGetOrEmpty(v) == IF v.k = "missing" THEN VStr(<<>>) ELSE v

\* pd.isna(value) of a scalar
IsNa(v) == v.k \in {"None", "NaN"}

T_nan == <<"n", "a", "n">>
T_NaN == <<"N", "a", "N">>
T_None == <<"N", "o", "n", "e">>
T_none == <<"n", "o", "n", "e">>
T_inf == <<"i", "n", "f">>
T_infinity == <<"i", "n", "f", "i", "n", "i", "t", "y">>

\* The digits before the first "." of a text (all of it without a ".")
RECURSIVE IntegerPart(_)
IntegerPart(body) ==
    IF body = <<>> \/ Head(body) = "." THEN <<>>
    ELSE <<Head(body)>> \o IntegerPart(Tail(body))

\* What follows the first "." of a text (nothing without a ".")
RECURSIVE FractionPart(_)
FractionPart(body) ==
    IF body = <<>> THEN <<>>
    ELSE IF Head(body) = "." THEN Tail(body)
    ELSE FractionPart(Tail(body))

\* float() of the text after its sign
ParseUnsigned(negative, body, ip, fp) ==
    IF Lower(body) \in {T_inf, T_infinity} THEN [t |-> "inf", n |-> 0]
    ELSE IF Lower(body) = T_nan THEN [t |-> "nan", n |-> 0]
    ELSE IF AllDecimal(ip) /\ AllDecimal(fp) /\ Len(ip) + Len(fp) > 0
         THEN [t |-> "fin",
               n |-> IF negative THEN 0 - DecimalValue(ip) ELSE DecimalValue(ip)]
    ELSE [t |-> "err", n |-> 0]

ParseSigned(negative, body) ==
    ParseUnsigned(negative, body, IntegerPart(body), FractionPart(body))

ParseStripped(s) ==
    IF s # <<>> /\ Head(s) \in {"-", "+"}
    THEN ParseSigned(Head(s) = "-", Tail(s))
    ELSE ParseSigned(FALSE, s)

\* float(s) of a text, as far as int(float(s)) reads it: the outcome is
\* "fin" with the value truncated towards zero, "inf", "nan", or "err" (a
\* ValueError).  The grammar is [sign] digits [. digits] | [sign] . digits |
\* [sign] inf | [sign] infinity | [sign] nan, surrounded by blanks; exponents
\* and digit-group underscores are outside the alphabets used here.
ParseFloat(text) == ParseStripped(Strip(text))

---------------------------------------------------------------------------
(* schema.py: safe_to_int *)

RNone == [t |-> "None", n |-> 0]
RInt(n) == [t |-> "int", n |-> n]
RRaise(e) == [t |-> e, n |-> 0]

\* int(f) under `except (ValueError, TypeError): return None`: int() of a
\* NaN raises ValueError, which is caught; int() of an infinity raises
\* OverflowError, which is not.  ("err" is float()'s own ValueError.)
IntOfParsed(f) ==
    CASE f.t = "fin" -> RInt(f.n)
      [] f.t = "inf" -> RRaise("OverflowError")
      [] f.t = "nan" -> RNone
      [] f.t = "err" -> RNone

IntOfFloat(s) == IntOfParsed(ParseFloat(s))

\* `if s in ("", "nan", "None", "NaN"): return None`, then the try block
CoerceText(s) ==
    IF s \in {<<>>, T_nan, T_None, T_NaN} THEN RNone ELSE IntOfFloat(s)

safe_to_int(value) ==
    IF IsNa(value) THEN RNone ELSE CoerceText(Strip(PyStr(value)))

Raised(r) == r.t \notin {"int", "None"}

---------------------------------------------------------------------------
(* The coercion alone: safe_to_int over generated and hand-picked values *)

MaxTextLen == 4

CoerceAlphabet == {" ", "-", ".", "1", "9", "i", "n", "f"}

CoerceValues ==
    {VNone, VNaN, VInt(-1), VInt(0), VInt(7)}
      \cup {VStr(s) : s \in TextsUpTo(CoerceAlphabet, MaxTextLen)}
      \cup {VStr(T_nan), VStr(T_NaN), VStr(T_None), VStr(T_none),
            VStr(T_infinity), VStr(<<"I", "N", "F">>), VStr(<<"x">>),
            VStr(<<"2", "0">>), VStr(<<" ", "1", "9", ".", "9", " ">>)}

InitCoerce ==
    /\ args \in {<<v>> : v \in CoerceValues}
    /\ row = Nil
    /\ df_page = <<>>
    /\ locals = Nil
    /\ ret = Nil
    /\ pc = "start"

SafeToInt ==
    /\ pc = "start"
    /\ Len(args) = 1
    /\ ret' = safe_to_int(args[1])
    /\ pc' = "safe_to_int"
    /\ UNCHANGED <<args, row, df_page, locals>>

NextCoerce == SafeToInt

SpecCoerce == InitCoerce /\ [][NextCoerce]_vars

\* Text that float() reads as an infinity
IsNonFiniteText(v) == v.k = "str" /\ ParseFloat(v.s).t = "inf"

\* C5: safe_to_int never raises, whatever the value: it returns None or an
\* integer, and text that parses as a non-finite number is mapped to None.
C5_SafeToIntNeverRaises ==
    pc = "safe_to_int" =>
        /\ ret.t \in {"int", "None"}
        /\ (IsNonFiniteText(args[1]) => ret = RNone)

\* Apart from the infinities the coercion is as described: null-like, blank
\* and unparsable values give None, numeric text its truncated value.
SafeToIntElsewhere ==
    (pc = "safe_to_int" /\ ~IsNonFiniteText(args[1])) =>
        /\ ret.t \in {"int", "None"}
        /\ (args[1].k = "int" => ret = RInt(args[1].n))
        /\ (args[1].k \in {"None", "NaN"} => ret = RNone)
        /\ (args[1] = VStr(<<" ", "1", "9", ".", "9", " ">>) => ret = RInt(19))
        /\ (args[1] = VStr(<<"-", "1", ".", "9">>) => ret = RInt(-1))
        /\ (args[1] = VStr(<<"1", " ", "9">>) => ret = RNone)

---------------------------------------------------------------------------
(* schema.py: the currency range validator, the row classifier, the scorer *)

MAX_SHILLINGS == 19
MAX_PENCE == 11

VALID_PENCE_FRACTIONS ==
    {<<>>, <<"1", "/", "4">>, <<"1", "/", "2">>, <<"3", "/", "4">>}

\* The result of a call that raised: nothing but the exception's name
Raise(e) == [raised |-> e]

Issue(field, value) == [field |-> field, value |-> value]

\* `if shillings is not None and (shillings < 0 or shillings > MAX_SHILLINGS)`
\* and the like for pence
OutOfRange(r, max) == r.t = "int" /\ (r.n < 0 \/ r.n > max)

\* `if pounds is not None and pounds < 0`
NegativePounds(r) == r.t = "int" /\ r.n < 0

RangeIssues(shillings, pence, pounds) ==
    (IF OutOfRange(shillings, MAX_SHILLINGS)
     THEN <<Issue("amount_shillings", shillings.n)>> ELSE <<>>)
    \o (IF OutOfRange(pence, MAX_PENCE)
        THEN <<Issue("amount_pence_whole", pence.n)>> ELSE <<>>)
    \o (IF NegativePounds(pounds)
        THEN <<Issue("amount_pounds", pounds.n)>> ELSE <<>>)

\* `return {"is_valid": len(issues) == 0, "issues": issues}`
RangeResult(issues) ==
    [raised |-> "", is_valid |-> Len(issues) = 0, issues |-> issues]

\* The three fields are coerced in the order shillings, pence, pounds; an
\* exception of a coercion leaves the function with the issues found so far
\* lost.
RangeVerdict(shillings, pence, pounds) ==
    IF Raised(shillings) THEN Raise(shillings.t)
    ELSE IF Raised(pence) THEN Raise(pence.t)
    ELSE IF Raised(pounds) THEN Raise(pounds.t)
    ELSE RangeResult(RangeIssues(shillings, pence, pounds))

validate_currency_range(r) ==
    RangeVerdict(safe_to_int(RowGet(r.amount_shillings)),
                 safe_to_int(RowGet(r.amount_pence_whole)),
                 safe_to_int(RowGet(r.amount_pounds)))

\* `val = str(row[col]).strip(); if val not in ("", "None", "nan")`, for a
\* column the row has
CellHasAmount(v) ==
    /\ v.k # "missing"
    /\ Strip(PyStr(v)) \notin {<<>>, T_None, T_nan}

has_any_amount(r) ==
    \/ CellHasAmount(r.amount_pounds)
    \/ CellHasAmount(r.amount_shillings)
    \/ CellHasAmount(r.amount_pence_whole)

\* A row without the column row_type
ABSENT == "<absent>"

infer_row_type_total_not_sticky(r) ==
    LET current_type == IF r.row_type = ABSENT THEN "entry" ELSE r.row_type
    IN  IF current_type = "title" THEN "title"
        ELSE IF ~has_any_amount(r) THEN "section_header"
        ELSE current_type

infer_row_type(r) ==
    LET current_type == IF r.row_type = ABSENT THEN "entry" ELSE r.row_type
    IN  IF current_type = "title" THEN "title"
        ELSE IF current_type = "total" THEN "total"
        ELSE IF ~has_any_amount(r) THEN "section_header"
        ELSE current_type

\* Factor 1: `desc and desc.lower() not in ("", "none", "nan")`
DescriptionCounts(desc) ==
    desc # <<>> /\ Lower(desc) \notin {<<>>, T_none, T_nan}

HasDescription(r) == DescriptionCounts(Strip(PyStr(RowGetOrEmpty(r.description))))

\* Factor 3: `str(row.get("amount_pence_fraction", "")).strip() in
\* VALID_PENCE_FRACTIONS`
HasValidFraction(r) ==
    Strip(PyStr(RowGetOrEmpty(r.amount_pence_fraction))) \in VALID_PENCE_FRACTIONS

\* Factor 4: row.get("row_type", "") against has_any_amount
TypeConsistentWith(row_type, has_amounts) ==
    \/ row_type = "entry" /\ has_amounts
    \/ row_type = "section_header" /\ ~has_amounts
    \/ row_type = "total" /\ has_amounts
    \/ row_type = "title"

TypeConsistent(r) == TypeConsistentWith(r.row_type, has_any_amount(r))

\* Factor 5, one column: float(val_str) raises ValueError
TextNotNumeric(val_str) ==
    /\ val_str \notin {<<>>, T_None, T_nan}
    /\ ParseFloat(val_str).t = "err"

CellNotNumeric(v) == TextNotNumeric(Strip(PyStr(RowGetOrEmpty(v))))

AmountFieldsValid(r) ==
    /\ ~CellNotNumeric(r.amount_pounds)
    /\ ~CellNotNumeric(r.amount_shillings)
    /\ ~CellNotNumeric(r.amount_pence_whole)

Min(a, b) == IF a < b THEN a ELSE b

\* Factors 1 to 5, in hundredths
FirstFive(r) ==
    (IF HasDescription(r) THEN 15 ELSE 0)
    + (IF has_any_amount(r) THEN 15 ELSE 0)
    + (IF HasValidFraction(r) THEN 15 ELSE 0)
    + (IF TypeConsistent(r) THEN 15 ELSE 0)
    + (IF AmountFieldsValid(r) THEN 15 ELSE 0)

\* Factor 6: full credit when valid, partial credit on exactly one issue
RangeCredit(validation) ==
    IF validation.is_valid THEN 25
    ELSE IF Len(validation.issues) = 1 THEN 10
    ELSE 0

\* The score in hundredths.  The code adds 0.15, 0.25 and 0.10 as floats and
\* returns round(min(score, 1.0), 2): every sum of these terms rounds to the
\* exact number of hundredths.
ScoreWith(five, validation) ==
    IF validation.raised # "" THEN Raise(validation.raised)
    ELSE [raised |-> "", score |-> Min(five + RangeCredit(validation), 100)]

calculate_confidence_score(r) == ScoreWith(FirstFive(r), validate_currency_range(r))

---------------------------------------------------------------------------
(* One row under the range validator, the classifier and the scorer *)

RowTypes == {"entry", "section_header", "total", "title", "subtotal", ABSENT}

Descriptions == {VStr(<<"R", "e", "n", "t">>), VStr(<<" ">>), VNone}

PoundsValues == {VMissing, VStr(<<>>), VStr(T_inf), VInt(-1), VStr(<<"2">>)}

ShillingsValues ==
    {VNone, VStr(<<"x">>), VStr(<<"-", "1">>)}
      \cup {VStr(IntToText(n)) : n \in {MAX_SHILLINGS, MAX_SHILLINGS + 1}}

PenceValues ==
    {VNaN, VStr(<<"1", ".", "5">>), VStr(T_inf), VInt(-1)}
      \cup {VStr(IntToText(n)) : n \in {MAX_PENCE, MAX_PENCE + 1}}

FractionValues == {VStr(<<>>), VStr(<<" ", "1", "/", "2">>), VNone}

\* The confidence_score a row already carries, in hundredths
OldScores == {0, 85}

Rows ==
    [row_type : RowTypes,
     description : Descriptions,
     amount_pounds : PoundsValues,
     amount_shillings : ShillingsValues,
     amount_pence_whole : PenceValues,
     amount_pence_fraction : FractionValues,
     confidence_score : OldScores]

InitRow ==
    /\ row \in Rows
    /\ args = <<>>
    /\ df_page = <<>>
    /\ locals = Nil
    /\ ret = Nil
    /\ pc = "start"

ValidateCurrencyRange ==
    /\ pc = "start"
    /\ row # Nil
    /\ ret' = validate_currency_range(row)
    /\ pc' = "validate_currency_range"
    /\ UNCHANGED <<args, row, df_page, locals>>

InferRowType ==
    /\ pc = "start"
    /\ row # Nil
    /\ ret' = [raised |-> "", row_type |-> infer_row_type(row)]
    /\ pc' = "infer_row_type"
    /\ UNCHANGED <<args, row, df_page, locals>>

CalculateConfidenceScore ==
    /\ pc = "start"
    /\ row # Nil
    /\ ret' = calculate_confidence_score(row)
    /\ pc' = "calculate_confidence_score"
    /\ UNCHANGED <<args, row, df_page, locals>>

NextRow ==
    \/ ValidateCurrencyRange
    \/ InferRowType
    \/ CalculateConfidenceScore

SpecRow == InitRow /\ [][NextRow]_vars

\* What a cell holds as an integer, read from the value itself: an int, or
\* text that is a number (its integer part), else nothing.
CellInteger(v) ==
    CASE v.k = "int" -> RInt(v.n)
      [] v.k = "str" /\ ParseFloat(v.s).t = "fin" -> RInt(ParseFloat(v.s).n)
      [] OTHER -> RNone

CellOutside(v, lo, hi) ==
    LET c == CellInteger(v)
    IN  c.t = "int" /\ (c.n < lo \/ c.n > hi)

CellNegative(v) ==
    LET c == CellInteger(v)
    IN  c.t = "int" /\ c.n < 0

IssuesOn(issues, field) == {i \in 1..Len(issues) : issues[i].field = field}

\* C4: for every row validate_currency_range reports an issue on a field
\* exactly when the field holds an integer outside its range (shillings
\* 0..19, pence 0..11, pounds not negative), at most one issue per field,
\* none for absent or unparsable fields, and is_valid exactly when there is
\* no issue.
C4_RangeIssuesExact ==
    pc = "validate_currency_range" =>
        /\ ret.raised = ""
        /\ (IssuesOn(ret.issues, "amount_shillings") # {}
                <=> CellOutside(row.amount_shillings, 0, 19))
        /\ (IssuesOn(ret.issues, "amount_pence_whole") # {}
                <=> CellOutside(row.amount_pence_whole, 0, 11))
        /\ (IssuesOn(ret.issues, "amount_pounds") # {}
                <=> CellNegative(row.amount_pounds))
        /\ \A f \in {"amount_shillings", "amount_pence_whole", "amount_pounds"} :
                Cardinality(IssuesOn(ret.issues, f)) <= 1
        /\ (ret.is_valid <=> ret.issues = <<>>)

\* The same statement for the calls that return
RangeIssuesExactOnReturn ==
    (pc = "validate_currency_range" /\ ret.raised = "") =>
        /\ (IssuesOn(ret.issues, "amount_shillings") # {}
                <=> CellOutside(row.amount_shillings, 0, 19))
        /\ (IssuesOn(ret.issues, "amount_pence_whole") # {}
                <=> CellOutside(row.amount_pence_whole, 0, 11))
        /\ (IssuesOn(ret.issues, "amount_pounds") # {}
                <=> CellNegative(row.amount_pounds))
        /\ \A f \in {"amount_shillings", "amount_pence_whole", "amount_pounds"} :
                Cardinality(IssuesOn(ret.issues, f)) <= 1
        /\ (ret.is_valid <=> ret.issues = <<>>)

\* C6: for every row calculate_confidence_score returns a value in
\* [0.0, 1.0] (0..100 hundredths) that does not depend on the
\* confidence_score the row already carries.
C6_ScoreInUnitInterval ==
    pc = "calculate_confidence_score" =>
        /\ ret.raised = ""
        /\ ret.score \in 0..100
        /\ \A old \in OldScores :
              calculate_confidence_score([row EXCEPT !.confidence_score = old]) = ret

ScoreInUnitIntervalOnReturn ==
    (pc = "calculate_confidence_score" /\ ret.raised = "") =>
        /\ ret.score \in 0..100
        /\ \A old \in OldScores :
              calculate_confidence_score([row EXCEPT !.confidence_score = old]) = ret

\* A cell that holds an amount, read from the value itself: the column is
\* there and its content is neither null-like nor blank nor the text of a
\* null ("None", "nan").
HoldsAmount(v) ==
    CASE v.k \in {"missing", "None", "NaN"} -> FALSE
      [] v.k = "int" -> TRUE
      [] v.k = "str" -> Strip(v.s) \notin {<<>>, T_None, T_nan}

AnyAmount(r) ==
    \E v \in {r.amount_pounds, r.amount_shillings, r.amount_pence_whole} :
        HoldsAmount(v)

\* An amount cell is numeric when it is an int or text float() accepts
NumericCell(v) ==
    \/ v.k = "int"
    \/ v.k = "str" /\ ParseFloat(v.s).t # "err"

Contribution(b) == IF b THEN 15 ELSE 0

\* The first five contributions, as the claim words them
FiveContributions(r) ==
    Contribution(/\ r.description.k = "str"
                 /\ Lower(Strip(r.description.s)) \notin {<<>>, T_none, T_nan})
    + Contribution(AnyAmount(r))
    + Contribution(/\ r.amount_pence_fraction.k = "str"
                   /\ Strip(r.amount_pence_fraction.s) \in VALID_PENCE_FRACTIONS)
    + Contribution(\/ r.row_type = "entry" /\ AnyAmount(r)
                   \/ r.row_type = "section_header" /\ ~AnyAmount(r)
                   \/ r.row_type = "total" /\ AnyAmount(r)
                   \/ r.row_type = "title")
    + Contribution(\A v \in {r.amount_pounds, r.amount_shillings,
                             r.amount_pence_whole} :
                        HoldsAmount(v) => NumericCell(v))

\* C7: for every row the score is the sum of the six contributions: 15 each
\* for description, amount presence, canonical fraction, type consistency
\* and numeric amounts, and for the range check 25 when
\* validate_currency_range reports is_valid, 10 on exactly one issue, 0 on
\* two or more.
C7_ScoreIsSumOfSix ==
    pc = "calculate_confidence_score" =>
        /\ ret.raised = ""
        /\ validate_currency_range(row).raised = ""
        /\ ret.score = FiveContributions(row)
              + (IF validate_currency_range(row).is_valid THEN 25
                 ELSE IF Len(validate_currency_range(row).issues) = 1 THEN 10
                 ELSE 0)

ScoreIsSumOfSixOnReturn ==
    (pc = "calculate_confidence_score" /\ ret.raised = "") =>
        ret.score = FiveContributions(row)
              + (IF validate_currency_range(row).is_valid THEN 25
                 ELSE IF Len(validate_currency_range(row).issues) = 1 THEN 10
                 ELSE 0)

\* C10: infer_row_type returns "title" for a row typed title and "total" for
\* a row typed total whether or not an amount is present; any other row
\* becomes "section_header" when none of pounds, shillings, pence-whole holds
\* an amount and keeps its type when one does (a row without the column
\* counts as typed "entry", the default of the lookup).
C10_InferRowType ==
    pc = "infer_row_type" =>
        /\ (row.row_type = "title" => ret.row_type = "title")
        /\ (row.row_type = "total" => ret.row_type = "total")
        /\ (row.row_type \notin {"title", "total"} /\ ~AnyAmount(row)
                => ret.row_type = "section_header")
        /\ (row.row_type \notin {"title", "total"} /\ AnyAmount(row)
                => ret.row_type = (IF row.row_type = ABSENT THEN "entry"
                                   ELSE row.row_type))

\* A row typed total that holds no amount has been classified and stays total
C10_Witness ==
    /\ pc = "infer_row_type"
    /\ row.row_type = "total"
    /\ ~AnyAmount(row)
    /\ ret.row_type = "total"

---------------------------------------------------------------------------
(* validation.py: the page arithmetic validator *)

\* `safe_to_int(x) or 0`
OrZero(r) == IF r.t = "int" THEN r.n ELSE 0

\* `return (p * 240) + (s * 12) + d`, p, s, d being the three coercions
PenceOfCoerced(p, s, d) ==
    IF Raised(p) THEN RRaise(p.t)
    ELSE IF Raised(s) THEN RRaise(s.t)
    ELSE IF Raised(d) THEN RRaise(d.t)
    ELSE RInt((OrZero(p) * 240) + (OrZero(s) * 12) + OrZero(d))

convert_to_pence(pounds, shillings, pence) ==
    PenceOfCoerced(safe_to_int(pounds), safe_to_int(shillings), safe_to_int(pence))

RowToPence(r) ==
    convert_to_pence(RowGet(r.amount_pounds), RowGet(r.amount_shillings),
                     RowGet(r.amount_pence_whole))

\* `for _, row in entries.iterrows(): entry_total_pence += convert_to_pence(...)`
\* One step of the loop: an exception of an earlier row, or of this row's
\* conversion, ends the loop
AddPence(sum, pence) ==
    IF Raised(sum) THEN sum
    ELSE IF Raised(pence) THEN pence
    ELSE RInt(sum.n + pence.n)

RECURSIVE SumEntries(_)
SumEntries(entries) ==
    IF entries = <<>> THEN RInt(0)
    ELSE AddPence(SumEntries(SubSeq(entries, 1, Len(entries) - 1)),
                  RowToPence(entries[Len(entries)]))

\* Division that rounds towards zero, remainder with the dividend's sign
pence_to_lsd_truncating(total_pence) ==
    IF total_pence >= 0
    THEN [pounds |-> total_pence \div 240,
          shillings |-> (total_pence % 240) \div 12,
          pence |-> (total_pence % 240) % 12,
          total_pence |-> total_pence]
    ELSE [pounds |-> 0 - ((0 - total_pence) \div 240),
          shillings |-> 0 - (((0 - total_pence) % 240) \div 12),
          pence |-> 0 - (((0 - total_pence) % 240) % 12),
          total_pence |-> total_pence]

\* Python's // and % round towards minus infinity, as \div and % do
pence_to_lsd(total_pence) ==
    [pounds |-> total_pence \div 240,
     shillings |-> (total_pence % 240) \div 12,
     pence |-> (total_pence % 240) % 12,
     total_pence |-> total_pence]

early_status_entries_first(n_entries, n_totals) ==
    IF n_entries = 0 THEN "no_entries"
    ELSE IF n_totals = 0 THEN "no_totals"
    ELSE ""

\* The two early returns: `if len(totals) == 0` before `if len(entries) == 0`
early_status(n_entries, n_totals) ==
    IF n_totals = 0 THEN "no_totals"
    ELSE IF n_entries = 0 THEN "no_entries"
    ELSE ""

Abs(n) == IF n < 0 THEN 0 - n ELSE n

difference_pence_signed(entry_total, stated_total) ==
    entry_total - stated_total

\* `"difference_pence": abs(difference)`
difference_pence(entry_total, stated_total) ==
    Abs(entry_total - stated_total)

IsEntry(r) == r.row_type = "entry"
IsTotal(r) == r.row_type = "total"

\* The result of a page that has entries and totals
PageResult(entry_total, stated_total) ==
    [raised |-> "",
     status |-> IF entry_total - stated_total = 0 THEN "match" ELSE "mismatch",
     can_validate |-> TRUE,
     calculated |-> pence_to_lsd(entry_total),
     stated |-> pence_to_lsd(stated_total),
     difference_pence |-> difference_pence(entry_total, stated_total),
     matches |-> entry_total - stated_total = 0]

\* The entries are summed first, the last total is converted next; an
\* exception of either leaves the function
ComparePence(entry_total_pence, stated_total_pence) ==
    IF Raised(entry_total_pence) THEN Raise(entry_total_pence.t)
    ELSE IF Raised(stated_total_pence) THEN Raise(stated_total_pence.t)
    ELSE PageResult(entry_total_pence.n, stated_total_pence.n)

\* `last_total = totals.iloc[-1]`
LastOf(totals) == totals[Len(totals)]

PageVerdict(entries, totals) ==
    IF early_status(Len(entries), Len(totals)) # ""
    THEN [raised |-> "", status |-> early_status(Len(entries), Len(totals)),
          can_validate |-> FALSE]
    ELSE ComparePence(SumEntries(entries), RowToPence(LastOf(totals)))

validate_page_arithmetic(df) ==
    PageVerdict(SelectSeq(df, IsEntry), SelectSeq(df, IsTotal))

---------------------------------------------------------------------------
(* One page under the arithmetic validator *)

MaxRows == 3

Amount(p, s, d) == [amount_pounds |-> p, amount_shillings |-> s,
                    amount_pence_whole |-> d]

\* 306, 174, 480 and 479 pence (the spec's worked example), a blank row, a
\* negative amount, and a row whose pounds read "inf"
PageAmounts ==
    {Amount(VStr(<<"1">>), VStr(<<"5">>), VStr(<<"6">>)),
     Amount(VStr(<<"0">>), VStr(<<"1", "4">>), VStr(<<"6">>)),
     Amount(VStr(<<"2">>), VStr(<<"0">>), VStr(<<"0">>)),
     Amount(VInt(1), VInt(19), VInt(11)),
     Amount(VNone, VStr(<<>>), VNaN),
     Amount(VStr(<<"-", "3">>), VNone, VStr(<<"x">>)),
     Amount(VStr(T_inf), VStr(<<>>), VStr(<<>>))}

PageRowTypes == {"entry", "total", "section_header"}

PageRows ==
    {[row_type |-> ty, amount_pounds |-> a.amount_pounds,
      amount_shillings |-> a.amount_shillings,
      amount_pence_whole |-> a.amount_pence_whole] :
        ty \in PageRowTypes, a \in PageAmounts}

Pages == UNION {[1..k -> PageRows] : k \in 0..MaxRows}

InitPage ==
    /\ df_page \in Pages
    /\ args = <<>>
    /\ row = Nil
    /\ locals = Nil
    /\ ret = Nil
    /\ pc = "start"

ValidatePageArithmetic ==
    /\ pc = "start"
    /\ ret' = validate_page_arithmetic(df_page)
    /\ pc' = "validate_page_arithmetic"
    /\ UNCHANGED <<args, row, df_page, locals>>

NextPage == ValidatePageArithmetic

SpecPage == InitPage /\ [][NextPage]_vars

Entries(df) == {i \in 1..Len(df) : df[i].row_type = "entry"}
Totals(df) == {i \in 1..Len(df) : df[i].row_type = "total"}
LastTotal(df) == CHOOSE i \in Totals(df) : \A j \in Totals(df) : j <= i

\* A component of an amount: the integer the cell holds, 0 when it holds none
Component(v) ==
    LET c == CellInteger(v) IN IF c.t = "int" THEN c.n ELSE 0

\* pounds*240 + shillings*12 + pence of one row
PenceOf(r) ==
    Component(r.amount_pounds) * 240 + Component(r.amount_shillings) * 12
        + Component(r.amount_pence_whole)

RECURSIVE SumOver(_, _)
SumOver(df, S) ==
    IF S = {} THEN 0
    ELSE LET i == CHOOSE i \in S : TRUE
         IN  PenceOf(df[i]) + SumOver(df, S \ {i})

\* C1: for every page with an entry row and a total row the validator
\* returns "match" (matches true) exactly when the entry rows sum to the
\* pence of the last total row, and "mismatch" (matches false) otherwise;
\* earlier total rows take no part.
C1_MatchIffSumEqualsLastTotal ==
    (/\ pc = "validate_page_arithmetic"
     /\ Entries(df_page) # {}
     /\ Totals(df_page) # {}) =>
        /\ ret.raised = ""
        /\ ret.status =
              (IF SumOver(df_page, Entries(df_page))
                    = PenceOf(df_page[LastTotal(df_page)])
               THEN "match" ELSE "mismatch")
        /\ ret.matches = (ret.status = "match")

\* The same statement for the calls that return
MatchIffSumEqualsLastTotalOnReturn ==
    (/\ pc = "validate_page_arithmetic"
     /\ Entries(df_page) # {}
     /\ Totals(df_page) # {}
     /\ ret.raised = "") =>
        /\ ret.status =
              (IF SumOver(df_page, Entries(df_page))
                    = PenceOf(df_page[LastTotal(df_page)])
               THEN "match" ELSE "mismatch")
        /\ ret.matches = (ret.status = "match")

\* C2: a page without total rows gets "no_totals" (with or without entry
\* rows), a page with total rows and no entry row gets "no_entries", both
\* with can_validate false; can_validate is true exactly when the status is
\* "match" or "mismatch".
C2_CannotValidate ==
    pc = "validate_page_arithmetic" =>
        /\ (Totals(df_page) = {} =>
                /\ ret.raised = ""
                /\ ret.status = "no_totals"
                /\ ret.can_validate = FALSE)
        /\ (Totals(df_page) # {} /\ Entries(df_page) = {} =>
                /\ ret.raised = ""
                /\ ret.status = "no_entries"
                /\ ret.can_validate = FALSE)
        /\ (ret.raised = "" =>
                (ret.can_validate <=> ret.status \in {"match", "mismatch"}))

\* A page of rows that has neither a total nor an entry was answered no_totals
C2_Witness ==
    /\ pc = "validate_page_arithmetic"
    /\ Len(df_page) > 0
    /\ Totals(df_page) = {}
    /\ Entries(df_page) = {}
    /\ ret.status = "no_totals"
    /\ ret.can_validate = FALSE

\* C3 as stated: the reported difference_pence is entry_total_pence minus
\* stated_total_pence of the same result, and matches is true exactly when
\* it is 0.
C3_DifferenceIsSigned ==
    (pc = "validate_page_arithmetic" /\ ret.raised = "" /\ ret.can_validate) =>
        /\ ret.difference_pence
              = ret.calculated.total_pence - ret.stated.total_pence
        /\ (ret.matches <=> ret.difference_pence = 0)

\* C3 amended: the reported difference_pence is the absolute value of
\* entry_total_pence minus stated_total_pence of the same result (never
\* negative), and matches is true exactly when it is 0.
C3_DifferenceIsAbsolute ==
    (pc = "validate_page_arithmetic" /\ ret.raised = "" /\ ret.can_validate) =>
        /\ ret.difference_pence
              = Abs(ret.calculated.total_pence - ret.stated.total_pence)
        /\ ret.difference_pence >= 0
        /\ (ret.matches <=> ret.difference_pence = 0)

\* The entries of a validated page sum to less than its stated total
C3_Witness ==
    /\ pc = "validate_page_arithmetic"
    /\ ret.raised = ""
    /\ ret.can_validate
    /\ ret.calculated.total_pence < ret.stated.total_pence
    /\ ret.difference_pence > 0

\* Whether a reported breakdown converts back to its total and carries
Carried(b) ==
    /\ b.pounds * 240 + b.shillings * 12 + b.pence = b.total_pence
    /\ b.shillings \in 0..19
    /\ b.pence \in 0..11

\* C16: for every validatable page, the pounds/shillings/pence breakdown
\* reported for the calculated total and the one reported for the stated
\* total are breakdowns of the sum of the entry rows and of the last total
\* row, each converts back to exactly its total_pence, and in each the
\* shillings are in 0..19 and the pence in 0..11, also for a negative
\* total.
C16_BreakdownRoundTrips ==
    (pc = "validate_page_arithmetic" /\ ret.raised = "" /\ ret.can_validate) =>
        /\ ret.calculated.total_pence = SumOver(df_page, Entries(df_page))
        /\ ret.stated.total_pence = PenceOf(df_page[LastTotal(df_page)])
        /\ Carried(ret.calculated)
        /\ Carried(ret.stated)

\* A validated page whose entries sum to a negative number of pence that is
\* no whole number of shillings
C16_Witness ==
    /\ pc = "validate_page_arithmetic"
    /\ ret.raised = ""
    /\ ret.can_validate
    /\ ret.calculated.total_pence < 0
    /\ ret.calculated.pence # 0
    /\ ret.calculated.pounds < 0

---------------------------------------------------------------------------
(* schema.py: clean_pence_fraction *)

T_1_4 == <<"1", "/", "4">>
T_1_2 == <<"1", "/", "2">>
T_3_4 == <<"3", "/", "4">>

Contains(s, c) == \E i \in 1..Len(s) : s[i] = c

\* `for unicode_char, standard in UNICODE_FRACTION_MAP.items(): if
\* unicode_char in original_frac: return whole, standard`: the first glyph of
\* the map (in the map's order) that the text contains decides; <<>> when
\* the text contains none
UNICODE_FRACTION_MAP(original_frac) ==
    IF Contains(original_frac, GLYPH_QUARTER) THEN T_1_4
    ELSE IF Contains(original_frac, GLYPH_HALF) THEN T_1_2
    ELSE IF Contains(original_frac, GLYPH_THREEQ) THEN T_3_4
    ELSE <<>>

\* HISTORICAL_FRACTION_MAP.get(frac): <<>> when frac is no key
HISTORICAL_FRACTION_MAP(frac) ==
    IF frac \in {<<"q">>, <<"q", "d">>, <<"q", "r">>} THEN T_1_4
    ELSE IF frac \in {<<"o", "b">>, <<"o", "b", "d">>} THEN T_1_2
    ELSE <<>>

\* re.sub(r'\s*d$', '', frac): a final "d" goes, with the blanks before it
StripDenarius(frac) ==
    IF frac # <<>> /\ frac[Len(frac)] = "d"
    THEN RStrip(SubSeq(frac, 1, Len(frac) - 1))
    ELSE frac

\* Whether the blank at position i belongs to a run of blanks next to a "/"
BlankBesideSlash(s, i) ==
    /\ IsSpace(s[i])
    /\ \/ \E j \in (i + 1)..Len(s) :
              s[j] = "/" /\ \A k \in i..(j - 1) : IsSpace(s[k])
       \/ \E j \in 1..(i - 1) :
              s[j] = "/" /\ \A k \in (j + 1)..i : IsSpace(s[k])

RECURSIVE DropBlanksBesideSlash(_, _)
DropBlanksBesideSlash(s, i) ==
    IF i > Len(s) THEN <<>>
    ELSE (IF BlankBesideSlash(s, i) THEN <<>> ELSE <<s[i]>>)
            \o DropBlanksBesideSlash(s, i + 1)

\* re.sub(r'\s*/\s*', '/', frac)
NormalizeSlash(frac) == DropBlanksBesideSlash(frac, 1)

\* int(frac) of a text for which isdigit() holds: the superscript digits are
\* digits to isdigit() and a ValueError to int()
IntOfDigits(frac) ==
    IF AllDecimal(frac) THEN RInt(DecimalValue(frac)) ELSE RRaise("ValueError")

Cleaned(whole, fraction) == [raised |-> "", whole |-> whole, fraction |-> fraction]

\* `return int(frac), ""`
DigitsToWhole(n) ==
    IF Raised(n) THEN Raise(n.t) ELSE Cleaned(VInt(n.n), <<>>)

\* Lines 50-73: frac is the lowercased text without its denarius suffix,
\* original_frac the text as given (both stripped)
CleanToken(whole, frac, original_frac) ==
    IF UNICODE_FRACTION_MAP(original_frac) # <<>>
    THEN Cleaned(whole, UNICODE_FRACTION_MAP(original_frac))
    ELSE IF HISTORICAL_FRACTION_MAP(frac) # <<>>
         THEN Cleaned(whole, HISTORICAL_FRACTION_MAP(frac))
    ELSE IF frac \in VALID_PENCE_FRACTIONS THEN Cleaned(whole, frac)
    ELSE IF NormalizeSlash(frac) \in VALID_PENCE_FRACTIONS
         THEN Cleaned(whole, NormalizeSlash(frac))
    ELSE IF IsDigit(frac) /\ Strip(PyStr(whole)) \in {<<>>, <<"0">>}
         THEN DigitsToWhole(IntOfDigits(frac))
    ELSE Cleaned(whole, <<>>)

\* Lines 41-48: frac is str(pence_fraction).strip().lower()
CleanLowered(whole, frac, original_frac) ==
    IF frac \in {<<>>, T_none, T_nan} THEN Cleaned(whole, <<>>)
    ELSE CleanToken(whole, Strip(StripDenarius(frac)), original_frac)

clean_pence_fraction(pence_whole, pence_fraction) ==
    CleanLowered(pence_whole, Lower(Strip(PyStr(pence_fraction))),
                 Strip(PyStr(pence_fraction)))

---------------------------------------------------------------------------
(* clean_pence_fraction over generated and hand-picked arguments *)

MaxFracLen == 4

FracAlphabet == {" ", "d", "q", "1", "4", "/", GLYPH_HALF, SUPERSCRIPT_TWO}

WholeArgs == {VStr(<<>>), VStr(<<" ", "0">>), VStr(<<"3">>), VNone, VInt(0)}

FractionArgs ==
    {VNone, VNaN, VInt(5)}
      \cup {VStr(s) : s \in TextsUpTo(FracAlphabet, MaxFracLen)}
      \cup {VStr(s) : s \in
              {<<"o", "b">>, <<"O", "B", "D">>, <<"o", "b", " ", "d">>,
               <<"q", "r">>, <<"Q">>, T_1_2, T_3_4,
               <<"3", " ", "/", " ", "4", " ", "d">>,
               <<"1", " ", "/", " ", "4">>,
               <<GLYPH_QUARTER>>, <<"2", GLYPH_THREEQ>>,
               <<GLYPH_HALF, GLYPH_QUARTER>>,
               <<"x", "y", "z">>, T_None, T_NaN, <<"0", "5">>,
               <<"1", "1", "d">>, <<"5", "/", "8">>}}

InitFraction ==
    /\ args \in {<<w, f>> : w \in WholeArgs, f \in FractionArgs}
    /\ row = Nil
    /\ df_page = <<>>
    /\ locals = Nil
    /\ ret = Nil
    /\ pc = "start"

CleanPenceFraction ==
    /\ pc = "start"
    /\ Len(args) = 2
    /\ ret' = clean_pence_fraction(args[1], args[2])
    /\ pc' = "clean_pence_fraction"
    /\ UNCHANGED <<args, row, df_page, locals>>

NextFraction == CleanPenceFraction

SpecFraction == InitFraction /\ [][NextFraction]_vars

\* C8: for every (whole, fraction) clean_pence_fraction returns without
\* raising, and the fraction it returns is one of "", "1/4", "1/2", "3/4".
C8_CleanNeverRaises ==
    pc = "clean_pence_fraction" =>
        /\ ret.raised = ""
        /\ ret.fraction \in {<<>>, T_1_4, T_1_2, T_3_4}

CleanFractionCanonicalOnReturn ==
    (pc = "clean_pence_fraction" /\ ret.raised = "") =>
        ret.fraction \in {<<>>, T_1_4, T_1_2, T_3_4}

\* A canonical fraction n/m written with any blanks around its "/"
SpacedForm(tok, f) ==
    /\ Len(tok) >= 3
    /\ tok[1] = f[1]
    /\ tok[Len(tok)] = f[3]
    /\ \E j \in 2..(Len(tok) - 1) :
          /\ tok[j] = "/"
          /\ \A k \in 2..(Len(tok) - 1) : k # j => tok[k] = " "

\* The ordered rules of the description, on the fraction as text
RuleResult(whole, fraction) ==
    LET text == Strip(PyStr(fraction))
        tok == Strip(StripDenarius(Lower(text)))
    IN  IF Lower(text) \in {<<>>, T_none, T_nan} THEN Cleaned(whole, <<>>)
        ELSE IF \E c \in {GLYPH_QUARTER, GLYPH_HALF, GLYPH_THREEQ} : Contains(text, c)
             THEN Cleaned(whole,
                          IF Contains(text, GLYPH_QUARTER) THEN T_1_4
                          ELSE IF Contains(text, GLYPH_HALF) THEN T_1_2
                          ELSE T_3_4)
        ELSE IF tok \in {<<"q">>, <<"q", "d">>, <<"q", "r">>}
             THEN Cleaned(whole, T_1_4)
        ELSE IF tok \in {<<"o", "b">>, <<"o", "b", "d">>}
             THEN Cleaned(whole, T_1_2)
        ELSE IF \E f \in {T_1_4, T_1_2, T_3_4} : SpacedForm(tok, f)
             THEN Cleaned(whole, CHOOSE f \in {T_1_4, T_1_2, T_3_4} : SpacedForm(tok, f))
        ELSE IF /\ tok # <<>> /\ AllDecimal(tok)
                /\ Strip(PyStr(whole)) \in {<<>>, <<"0">>}
             THEN Cleaned(VInt(DecimalValue(tok)), <<>>)
        ELSE Cleaned(whole, <<>>)

\* C9: for every (whole, fraction) clean_pence_fraction returns the result
\* of the ordered rules: empty/none/nan; a glyph; q, qd, qr and ob, obd after
\* lowercasing and dropping the denarius d; a canonical fraction, possibly
\* with blanks around "/"; an all-digit token moved to the whole when the
\* whole is empty or "0"; else the fraction is dropped and the whole kept.
C9_CleanFollowsRules ==
    pc = "clean_pence_fraction" => ret = RuleResult(args[1], args[2])

CleanFollowsRulesOnReturn ==
    (pc = "clean_pence_fraction" /\ ret.raised = "") =>
        ret = RuleResult(args[1], args[2])


---------------------------------------------------------------------------
(* extraction.py: extract_page_rows, from the parsed response on *)

\* The booleans a cell can hold
VTrue == [k |-> "bool", n |-> 1, s |-> <<>>]
VFalse == [k |-> "bool", n |-> 0, s |-> <<>>]

\* The row_type of a row that lacks the key in a table that has the column
NAN_TYPE == "<nan>"

T_ledger == <<"l", "e", "d", "g", "e", "r">>
T_balance_sheet ==
    <<"b", "a", "l", "a", "n", "c", "e", "_", "s", "h", "e", "e", "t">>

\* The columns of COLUMNS the model carries besides row_type (the columns
\* date_raw, group_brace_id, transaction_type, num_col_1..6,
\* entry_confidence and notes are defaulted and passed through like
\* description)
CellColumns ==
    {"file_id", "page_number", "page_type", "page_title", "row_index",
     "description", "amount_pounds", "amount_shillings",
     "amount_pence_whole", "amount_pence_fraction", "is_total_row",
     "confidence_score"}

\* `col in df.columns` for the table pd.DataFrame(rows): some row has the key
ColumnPresent(rows, col) == \E j \in 1..Len(rows) : rows[j][col] # VMissing

TypeColumnPresent(rows) == \E j \in 1..Len(rows) : rows[j].row_type # ABSENT

\* pd.DataFrame(rows), one cell: a row without a key that another row has
\* holds NaN in that column
FrameCell(rows, i, col) ==
    IF rows[i][col] = VMissing /\ ColumnPresent(rows, col)
    THEN VNaN ELSE rows[i][col]

FrameType(rows, i) ==
    IF rows[i].row_type = ABSENT /\ TypeColumnPresent(rows)
    THEN NAN_TYPE ELSE rows[i].row_type

FrameRow(rows, i) ==
    [col \in CellColumns \cup {"row_type"} |->
        IF col = "row_type" THEN FrameType(rows, i)
        ELSE FrameCell(rows, i, col)]

\* `df = pd.DataFrame(rows)`
DataFrame(rows) == [i \in 1..Len(rows) |-> FrameRow(rows, i)]

\* `if col not in df.columns: df[col] = default_val`, on one cell
DefaultCell(v, default_val) == IF v = VMissing THEN default_val ELSE v

DefaultsRow(r, file_id, page_number) ==
    [r EXCEPT !.file_id = VStr(file_id),
              !.page_number = VInt(page_number),
              !.page_type = DefaultCell(@, VStr(T_ledger)),
              !.page_title = DefaultCell(@, VStr(<<>>)),
              !.is_total_row = DefaultCell(@, VFalse)]

apply_schema_defaults(df, file_id, page_number) ==
    [i \in 1..Len(df) |-> DefaultsRow(df[i], file_id, page_number)]

\* `df["page_type"] = data.get("page_type", "ledger")` and
\* `df["page_title"] = data.get("page_title", "")`
SetPageRow(r, data) ==
    [r EXCEPT !.page_type = DefaultCell(data.page_type, VStr(T_ledger)),
              !.page_title = DefaultCell(data.page_title, VStr(<<>>))]

SetPage(df, data) == [i \in 1..Len(df) |-> SetPageRow(df[i], data)]


\* One row of a loop that can raise: the row it leaves, or the exception
Done(r) == [raised |-> "", row |-> r]

\* `df.at[idx, "amount_pence_whole"] = cleaned_whole` and
\* `df.at[idx, "amount_pence_fraction"] = cleaned_frac`: both columns exist
\* from here on
WithCleaned(r, cleaned) ==
    IF cleaned.raised # "" THEN Raise(cleaned.raised)
    ELSE Done([r EXCEPT !.amount_pence_whole = cleaned.whole,
                        !.amount_pence_fraction = VStr(cleaned.fraction)])

\* The body of the loop "Clean pence fractions"
CleanRow(r) ==
    WithCleaned(r, clean_pence_fraction(RowGetOrEmpty(r.amount_pence_whole),
                                        RowGetOrEmpty(r.amount_pence_fraction)))

normalize_empty_values(value) == IF IsNa(value) THEN VStr(<<>>) ELSE value

\* `if col in df.columns: df[col] = df[col].apply(normalize_empty_values)`
\* for the four amount columns (a column the table lacks stays lacking)
NormalizeRow(r) ==
    [r EXCEPT !.amount_pounds = normalize_empty_values(@),
              !.amount_shillings = normalize_empty_values(@),
              !.amount_pence_whole = normalize_empty_values(@),
              !.amount_pence_fraction = normalize_empty_values(@)]

VALID_ROW_TYPES == {"title", "total", "section_header", "entry"}

\* `if row.get("row_type") not in ["title", "total", "section_header",
\* "entry"]: df.at[idx, "row_type"] = infer_row_type(row)`
InferRow(r) ==
    IF r.row_type \in VALID_ROW_TYPES THEN r
    ELSE [r EXCEPT !.row_type = infer_row_type(r)]

WithScore(r, scored) ==
    IF scored.raised # "" THEN Raise(scored.raised)
    ELSE Done([r EXCEPT !.confidence_score = VInt(scored.score)])

\* `df["confidence_score"] = df.apply(calculate_confidence_score, axis=1)`,
\* one row; the score is kept in hundredths
ScoreRow(r) == WithScore(r, calculate_confidence_score(r))

FillCell_zero(v) == IF v = VMissing THEN VStr(<<"0">>) ELSE v

\* `if col not in df.columns: df[col] = ""`, on one cell
FillCell(v) == IF v = VMissing THEN VStr(<<>>) ELSE v

\* "Ensure all columns are present" and `df = df[COLUMNS]`
FillRow(r) ==
    [col \in CellColumns \cup {"row_type"} |->
        IF col = "row_type"
        THEN (IF r.row_type = ABSENT THEN "" ELSE r.row_type)
        ELSE FillCell(r[col])]

AnyRaised(results) == \E i \in 1..Len(results) : results[i].raised # ""

\* The exception of the first row (in table order) whose step raised
FirstRaised(results) ==
    results[CHOOSE i \in 1..Len(results) :
                /\ results[i].raised # ""
                /\ \A j \in 1..(i - 1) : results[j].raised = ""].raised

RowsOf(results) == [i \in 1..Len(results) |-> results[i].row]

CleanAll(df) == [i \in 1..Len(df) |-> CleanRow(df[i])]

ClassifyAll(df) == [i \in 1..Len(df) |-> InferRow(NormalizeRow(df[i]))]

ScoreAll(df) == [i \in 1..Len(df) |-> ScoreRow(df[i])]

FillAll(df) == [i \in 1..Len(df) |-> FillRow(df[i])]

\* What extract_page_rows returns: the rows of the table
Table(rows) == [raised |-> "", rows |-> rows]

AfterScore(scored) ==
    IF AnyRaised(scored) THEN Raise(FirstRaised(scored))
    ELSE Table(FillAll(RowsOf(scored)))

AfterClean(cleaned) ==
    IF AnyRaised(cleaned) THEN Raise(FirstRaised(cleaned))
    ELSE AfterScore(ScoreAll(ClassifyAll(RowsOf(cleaned))))

\* extract_page_rows from `rows = data.get("rows", [])` on: data is the
\* parsed response of the transcription provider
extract_page_rows(file_id, page_number, data) ==
    IF data.rows = <<>> THEN Table(<<>>)
    ELSE AfterClean(CleanAll(SetPage(
            apply_schema_defaults(DataFrame(data.rows), file_id, page_number),
            data)))


---------------------------------------------------------------------------
(* One response of the transcription provider under extract_page_rows *)

MaxBatch == 2

T_Rent == <<"R", "e", "n", "t">>

Content(desc, p, s, d, f) ==
    [description |-> desc, amount_pounds |-> p, amount_shillings |-> s,
     amount_pence_whole |-> d, amount_pence_fraction |-> f]

\* A label without amount keys; an amount with "ob"; a row whose pence
\* stand in the fraction column; pounds that read "inf"; a superscript
\* digit in the fraction column; an amount out of range with a junk
\* fraction and no description
ExtractContents ==
    {Content(VStr(<<"G", "l", "e", "b", "e">>),
             VMissing, VMissing, VMissing, VMissing),
     Content(VStr(T_Rent), VStr(<<"2">>), VStr(<<"5">>), VStr(<<"6">>),
             VStr(<<"o", "b">>)),
     Content(VStr(T_Rent), VMissing, VNone, VMissing, VStr(<<"5">>)),
     Content(VStr(T_Rent), VStr(T_inf), VStr(<<>>), VStr(<<>>), VStr(<<>>)),
     Content(VStr(T_Rent), VStr(<<>>), VStr(<<>>), VStr(<<"0">>),
             VStr(<<SUPERSCRIPT_TWO>>)),
     Content(VMissing, VStr(<<"1">>), VStr(<<"2", "0">>), VStr(<<"1", "2">>),
             VStr(<<"x">>))}

ExtractRowTypes == {ABSENT, "entry", "total", "subtotal"}

Identity(row_index, is_total_row) ==
    [row_index |-> row_index, is_total_row |-> is_total_row]

\* Rows that carry neither row_index nor is_total_row, and rows that carry
\* both
ExtractIdentities == {Identity(VMissing, VMissing), Identity(VInt(1), VTrue)}

\* A row as the response gives it: a key the row lacks is VMissing / ABSENT
RawRow(ty, c, id) ==
    [file_id |-> VMissing, page_number |-> VMissing, page_type |-> VMissing,
     page_title |-> VMissing, row_index |-> id.row_index, row_type |-> ty,
     description |-> c.description, amount_pounds |-> c.amount_pounds,
     amount_shillings |-> c.amount_shillings,
     amount_pence_whole |-> c.amount_pence_whole,
     amount_pence_fraction |-> c.amount_pence_fraction,
     is_total_row |-> id.is_total_row, confidence_score |-> VMissing]

RawRows ==
    {RawRow(ty, c, id) :
        ty \in ExtractRowTypes, c \in ExtractContents, id \in ExtractIdentities}

Response(page_type, rows) ==
    [page_type |-> page_type, page_title |-> VStr(<<"C">>), rows |-> rows]

Responses ==
    {Response(pt, rows) :
        pt \in {VMissing, VStr(T_balance_sheet)},
        rows \in UNION {[1..k -> RawRows] : k \in 0..MaxBatch}}

InitExtract ==
    /\ args \in {<<(<<"A">>), n, data>> : n \in {1}, data \in Responses}
    /\ row = Nil
    /\ df_page = <<>>
    /\ locals = Nil
    /\ ret = Nil
    /\ pc = "start"

ExtractPageRows ==
    /\ pc = "start"
    /\ Len(args) = 3
    /\ ret' = extract_page_rows(args[1], args[2], args[3])
    /\ pc' = "extract_page_rows"
    /\ UNCHANGED <<args, row, df_page, locals>>

NextExtract == ExtractPageRows

SpecExtract == InitExtract /\ [][NextExtract]_vars


\* The rows of the response under call, and whether the call returned a table
RawOf(a) == a[3].rows

Returned == pc = "extract_page_rows" /\ ret.raised = ""

\* C11: in every row of the table extract_page_rows returns, is_total_row
\* is a boolean that is true exactly when row_type is "total".
C11_IsTotalRowDerived ==
    Returned =>
        \A i \in 1..Len(ret.rows) :
            /\ ret.rows[i].is_total_row \in {VTrue, VFalse}
            /\ (ret.rows[i].is_total_row = VTrue
                    <=> ret.rows[i].row_type = "total")

\* What the code does instead: the flag of an output row is the flag the
\* response gave the row, False when no row of the response gave one, NaN
\* when only other rows did; row_type takes no part.
IsTotalRowIsRawOrDefault ==
    Returned =>
        \A i \in 1..Len(ret.rows) :
            ret.rows[i].is_total_row =
                (IF RawOf(args)[i].is_total_row # VMissing
                 THEN RawOf(args)[i].is_total_row
                 ELSE IF ColumnPresent(RawOf(args), "is_total_row") THEN VNaN
                 ELSE VFalse)

\* C12: when a row of the response lacks row_index the call fails, and a
\* table that is returned carries in every row the row_index the response
\* gave that row and the file_id and page_number the caller passed.
C12_NoFabricatedIdentity ==
    pc = "extract_page_rows" =>
        /\ ((\E i \in 1..Len(RawOf(args)) :
                RawOf(args)[i].row_index = VMissing) => ret.raised # "")
        /\ (ret.raised = "" =>
                \A i \in 1..Len(ret.rows) :
                    /\ ret.rows[i].row_index = RawOf(args)[i].row_index
                    /\ ret.rows[i].file_id = VStr(args[1])
                    /\ ret.rows[i].page_number = VInt(args[2]))

\* The part of C12 the code keeps: file_id and page_number of every output
\* row are the caller's
IdentityFromCaller ==
    Returned =>
        \A i \in 1..Len(ret.rows) :
            /\ ret.rows[i].file_id = VStr(args[1])
            /\ ret.rows[i].page_number = VInt(args[2])


\* C17: in the table extract_page_rows returns every row_type is one of
\* title, entry, section_header, total, and every row that is neither a
\* title nor a total and has no amount in pounds, shillings or pence-whole
\* is typed section_header.
C17_EveryRowClassified ==
    Returned =>
        \A i \in 1..Len(ret.rows) :
            /\ ret.rows[i].row_type \in VALID_ROW_TYPES
            /\ (/\ ret.rows[i].row_type \notin {"title", "total"}
                /\ ~has_any_amount(ret.rows[i]))
                    => ret.rows[i].row_type = "section_header"

\* What the code does instead: a row whose row_type the response gave as one
\* of the four labels keeps it, whatever its amounts; only the other rows
\* go through infer_row_type, which answers section_header for a row
\* without amounts and the row's own label otherwise.
OnlyOddTypesClassified ==
    Returned =>
        \A i \in 1..Len(ret.rows) :
            /\ (RawOf(args)[i].row_type \in VALID_ROW_TYPES
                    => ret.rows[i].row_type = RawOf(args)[i].row_type)
            /\ (RawOf(args)[i].row_type \notin VALID_ROW_TYPES
                    => ret.rows[i].row_type =
                          (IF ~has_any_amount(ret.rows[i]) THEN "section_header"
                           ELSE IF TypeColumnPresent(RawOf(args))
                                THEN FrameType(RawOf(args), i)
                           ELSE "entry"))

\* C18: in the table extract_page_rows returns, the confidence_score of
\* each row is what calculate_confidence_score answers for that row as it
\* stands in the table (after cleaning, normalisation, inference, the
\* filling of the missing columns and the reordering).
C18_ScoreOfFinalValues ==
    Returned =>
        \A i \in 1..Len(ret.rows) :
            /\ calculate_confidence_score(ret.rows[i]).raised = ""
            /\ ret.rows[i].confidence_score
                  = VInt(calculate_confidence_score(ret.rows[i]).score)

\* A returned table of two rows: an entry that had its pence moved out of
\* the fraction column by the cleaning and its null shillings emptied, and
\* a total without any amount; the pounds column was created after the
\* scoring
C18_Witness ==
    /\ Returned
    /\ Len(ret.rows) = 2
    /\ ~ColumnPresent(RawOf(args), "amount_pounds")
    /\ RawOf(args)[1].amount_pence_fraction = VStr(<<"5">>)
    /\ RawOf(args)[1].amount_shillings = VNone
    /\ ret.rows[1].amount_pence_whole = VInt(5)
    /\ ret.rows[1].amount_pence_fraction = VStr(<<>>)
    /\ ret.rows[1].amount_pounds = VStr(<<>>)
    /\ ret.rows[1].amount_shillings = VStr(<<>>)
    /\ ret.rows[1].row_type = "entry"
    /\ ret.rows[1].confidence_score = VInt(100)
    /\ ret.rows[2].row_type = "total"
    /\ ret.rows[2].amount_pounds = VStr(<<>>)
    /\ ret.rows[2].confidence_score = VInt(70)


\* What a call made of its i-th row: the output record, or the exception
RowResult(table, i) ==
    IF table.raised # "" THEN Raise(table.raised) ELSE Done(table.rows[i])

\* The call on the response reduced to its i-th row
Alone(a, i) ==
    extract_page_rows(a[1], a[2], Response(a[3].page_type, <<a[3].rows[i]>>))

\* The call on the response with its rows in reverse order
Reversed(a) ==
    extract_page_rows(a[1], a[2],
        Response(a[3].page_type,
                 [i \in 1..Len(a[3].rows) |->
                     a[3].rows[Len(a[3].rows) + 1 - i]]))

\* C15: what the pipeline makes of a row depends on that row and on the
\* page-level fields only: each row of a batch gets the output record it
\* gets when processed alone, and the one it gets when the batch is
\* processed in the opposite order.
C15_RowsIndependent ==
    pc = "extract_page_rows" =>
        \A i \in 1..Len(RawOf(args)) :
            /\ RowResult(ret, i) = RowResult(Alone(args, i), 1)
            /\ RowResult(ret, i)
                  = RowResult(Reversed(args), Len(RawOf(args)) + 1 - i)

\* The keys a row of the response carries
KeysOf(r) ==
    {col \in CellColumns : r[col] # VMissing}
        \cup (IF r.row_type # ABSENT THEN {"row_type"} ELSE {})

\* Where the code keeps rows independent: in a returned table whose raw
\* rows all carry the same keys, each row is the record it is alone
RowsIndependentWhenUniform ==
    (/\ Returned
     /\ \A i, j \in 1..Len(RawOf(args)) :
            KeysOf(RawOf(args)[i]) = KeysOf(RawOf(args)[j])) =>
        \A i \in 1..Len(RawOf(args)) :
            RowResult(ret, i) = RowResult(Alone(args, i), 1)

\* A returned table in which a row is not the record it is alone, though
\* every row of the batch is processed without an exception when alone
RowsDependWithoutException ==
    /\ Returned
    /\ \E i \in 1..Len(RawOf(args)) :
          /\ Alone(args, i).raised = ""
          /\ RowResult(ret, i) # RowResult(Alone(args, i), 1)


---------------------------------------------------------------------------
(* extraction.py: extract_full_pdf, one page per step *)

MaxPages == 3

\* The responses of the provider for a page: no rows, one clean row, a row
\* on which the cleaning raises ValueError
PdfResponses ==
    {Response(VMissing, <<>>),
     Response(VMissing,
        <<RawRow("entry",
                 Content(VStr(T_Rent), VStr(<<"2">>), VStr(<<"5">>),
                         VStr(<<"6">>), VStr(<<"o", "b">>)),
                 Identity(VInt(1), VFalse))>>),
     Response(VMissing,
        <<RawRow("entry",
                 Content(VStr(T_Rent), VStr(<<>>), VStr(<<>>), VStr(<<"0">>),
                         VStr(<<SUPERSCRIPT_TWO>>)),
                 Identity(VInt(1), VFalse))>>)}

PdfFileId == <<"A">>

\* What extract_page_rows(file_id, pdf_path, page_no) can do for each page
\* of the file: fail before there is a parsed response (the provider's call
\* raises, json.loads raises), or go on with the response
PageOutcomes ==
    [page_no \in 1..MaxPages |->
        {Raise("APIConnectionError"), Raise("JSONDecodeError")}
            \cup {extract_page_rows(PdfFileId, page_no, data) :
                    data \in PdfResponses}]

\* `errors.append({"file_id": file_id, "page_number": page_no, "error":
\* str(e)})`
ErrorEntry(file_id, page_no, e) ==
    [file_id |-> file_id, page_number |-> page_no, error |-> e]

\* The call made for a page, as the log of calls keeps it
Call(page_no, outcome) == [page_number |-> page_no, outcome |-> outcome]

\* A loop that gives up at the first page that fails
PageStep_abort(l, a, outcome) ==
    IF outcome.raised # ""
    THEN [l EXCEPT !.errors = Append(@, ErrorEntry(a[1], l.page_no, outcome.raised)),
                   !.calls = Append(@, Call(l.page_no, outcome)),
                   !.page_no = a[2] + 1]
    ELSE [l EXCEPT !.all_dfs = Append(@, outcome.rows),
                   !.calls = Append(@, Call(l.page_no, outcome)),
                   !.page_no = @ + 1]

\* One pass of `for page_no in range(1, num_pages + 1)`: the table is
\* appended to all_dfs, or the exception is caught and an entry appended to
\* errors; calls logs the calls of extract_page_rows made so far
PageStep(l, a, outcome) ==
    IF outcome.raised # ""
    THEN [l EXCEPT !.errors = Append(@, ErrorEntry(a[1], l.page_no, outcome.raised)),
                   !.calls = Append(@, Call(l.page_no, outcome)),
                   !.page_no = @ + 1]
    ELSE [l EXCEPT !.all_dfs = Append(@, outcome.rows),
                   !.calls = Append(@, Call(l.page_no, outcome)),
                   !.page_no = @ + 1]

\* pd.concat(all_dfs, ignore_index=True); no table at all gives the empty
\* table as well
RECURSIVE Concat(_)
Concat(all_dfs) ==
    IF all_dfs = <<>> THEN <<>>
    ELSE Head(all_dfs) \o Concat(Tail(all_dfs))

InitPdf ==
    /\ args \in {<<PdfFileId, num_pages>> : num_pages \in 0..MaxPages}
    /\ row = Nil
    /\ df_page = <<>>
    /\ locals = Nil
    /\ ret = Nil
    /\ pc = "start"

\* `all_dfs = []; errors = []`
BeginPdf ==
    /\ pc = "start"
    /\ Len(args) = 2
    /\ locals' = [page_no |-> 1, all_dfs |-> <<>>, errors |-> <<>>,
                  calls |-> <<>>]
    /\ pc' = "for page_no"
    /\ UNCHANGED <<args, row, df_page, ret>>

VisitPage ==
    /\ pc = "for page_no"
    /\ locals.page_no <= args[2]
    /\ \E outcome \in PageOutcomes[locals.page_no] :
          locals' = PageStep(locals, args, outcome)
    /\ UNCHANGED <<args, row, df_page, ret, pc>>

\* `return combined, errors`
ReturnCombined ==
    /\ pc = "for page_no"
    /\ locals.page_no > args[2]
    /\ ret' = [raised |-> "", combined |-> Concat(locals.all_dfs),
               errors |-> locals.errors]
    /\ pc' = "extract_full_pdf"
    /\ UNCHANGED <<args, row, df_page, locals>>

NextPdf ==
    \/ BeginPdf
    \/ VisitPage
    \/ ReturnCombined

\* The loop is the program's only thread: it takes its next step
SpecPdf == InitPdf /\ [][NextPdf]_vars /\ WF_vars(NextPdf)


\* The error entries recorded for page p, and the rows of a table that
\* belong to page p
ErrorsOf(errors, p) == {k \in 1..Len(errors) : errors[k].page_number = p}

RowsOfPage(table, p) ==
    SelectSeq(table, LAMBDA r : r.page_number = VInt(p))

CallReturned(c) == c.outcome.raised = ""

TableOfCall(c) == c.outcome.rows

\* The tables of the calls that returned, in the order of the calls
RECURSIVE TablesOf(_)
TablesOf(calls) ==
    IF calls = <<>> THEN <<>>
    ELSE (IF CallReturned(Head(calls)) THEN <<TableOfCall(Head(calls))>>
          ELSE <<>>) \o TablesOf(Tail(calls))

\* Page p, visited, is accounted for exactly once: its call returned, its
\* table is in all_dfs (its rows, possibly none, are the rows of that page
\* in the concatenation) and errors has no entry for it; or its call raised,
\* errors has exactly one entry for it, carrying the file_id, the page
\* number and the exception, and no row of that page is in the
\* concatenation.
AccountedOnce(l, a, p) ==
    IF CallReturned(l.calls[p])
    THEN /\ ErrorsOf(l.errors, p) = {}
         /\ RowsOfPage(Concat(l.all_dfs), p) = TableOfCall(l.calls[p])
    ELSE /\ Cardinality(ErrorsOf(l.errors, p)) = 1
         /\ \A k \in ErrorsOf(l.errors, p) :
                l.errors[k] = ErrorEntry(a[1], p, l.calls[p].outcome.raised)
         /\ RowsOfPage(Concat(l.all_dfs), p) = <<>>

\* The pages are visited in the order 1, 2, ..., one call each, whatever
\* the earlier calls did; every visited page is accounted for exactly once
\* and no other page is accounted for at all
PagesAccounted ==
    pc \in {"for page_no", "extract_full_pdf"} =>
        /\ Len(locals.calls) = locals.page_no - 1
        /\ locals.page_no <= args[2] + 1
        /\ \A p \in 1..Len(locals.calls) :
              /\ locals.calls[p].page_number = p
              /\ AccountedOnce(locals, args, p)
        /\ locals.all_dfs = TablesOf(locals.calls)
        /\ Len(locals.all_dfs) + Len(locals.errors) = Len(locals.calls)
        /\ (pc = "extract_full_pdf" =>
              /\ Len(locals.calls) = args[2]
              /\ ret.raised = ""
              /\ ret.errors = locals.errors
              /\ ret.combined = Concat(locals.all_dfs))

\* C13: extract_full_pdf visits the pages 1..num_pages in order and
\* returns; a page that fails does not keep the later pages from being
\* visited; when it returns every page in 1..num_pages is accounted for
\* exactly once, by its rows (possibly none) in the combined table or by
\* exactly one error entry with its file_id and page_number, never both.
C13_EveryPageAccountedOnce ==
    /\ []PagesAccounted
    /\ <>(pc = "extract_full_pdf")

\* The call returned after a first page that failed, a second page that
\* gave a row and a third page without rows
C13_Witness ==
    /\ pc = "extract_full_pdf"
    /\ args[2] = 3
    /\ ~CallReturned(locals.calls[1])
    /\ Len(ret.errors) = 1
    /\ ret.errors[1].page_number = 1
    /\ Len(TableOfCall(locals.calls[2])) = 1
    /\ TableOfCall(locals.calls[3]) = <<>>
    /\ Len(ret.combined) = 1
    /\ ret.combined[1].page_number = VInt(2)


---------------------------------------------------------------------------
(* schema.py: classify_page_complexity *)

\* Factor 1: `if row_count > 30: += 2 elif row_count > 15: += 1`
RowCountScore(row_count) ==
    IF row_count > 30 THEN 2 ELSE IF row_count > 15 THEN 1 ELSE 0

\* `(df_page["row_type"] == label).sum()`
CountType(df, label) ==
    Cardinality({i \in 1..Len(df) : df[i].row_type = label})

\* Factor 2: `if section_headers > 3: += 2 elif section_headers > 1: += 1`
SectionHeaderScore(section_headers) ==
    IF section_headers > 3 THEN 2 ELSE IF section_headers > 1 THEN 1 ELSE 0

\* Factor 3: `if totals > 1: += 1`
TotalsScore(totals) == IF totals > 1 THEN 1 ELSE 0

\* df_page["group_brace_id"].values
BraceValues(df) == {df[i].group_brace_id : i \in 1..Len(df)}

\* A count of the brace groups that takes "" for a group
BraceGroups_counting_blank(df) ==
    Cardinality({v \in BraceValues(df) : ~IsNa(v) /\ v # VMissing})

\* `brace_groups = df_page["group_brace_id"].nunique()` (NaN and None are
\* not counted), `if "" in df_page["group_brace_id"].values: brace_groups
\* -= 1`; 0 for a page without the column
BraceGroups(df) ==
    Cardinality({v \in BraceValues(df) : ~IsNa(v) /\ v # VMissing})
        - (IF VStr(<<>>) \in BraceValues(df) THEN 1 ELSE 0)

\* Factor 4: `if brace_groups > 0: += 1`
BraceScore(brace_groups) == IF brace_groups > 0 THEN 1 ELSE 0

\* `df_page["page_type"].iloc[0] if len(df_page) > 0 else "ledger"`; a page
\* without the column has no page type
PageTypeOf(df) == IF Len(df) > 0 THEN df[1].page_type ELSE VStr(T_ledger)

\* Factor 5: `if page_type == "balance_sheet": += 2`
PageTypeScore(page_type) == IF page_type = VStr(T_balance_sheet) THEN 2 ELSE 0

ComplexityScore(df) ==
    RowCountScore(Len(df))
        + SectionHeaderScore(CountType(df, "section_header"))
        + TotalsScore(CountType(df, "total"))
        + BraceScore(BraceGroups(df))
        + PageTypeScore(PageTypeOf(df))

\* `if complexity_score >= 4: "complex" elif complexity_score >= 2:
\* "moderate" else: "simple"`
Classification(complexity_score) ==
    IF complexity_score >= 4 THEN "complex"
    ELSE IF complexity_score >= 2 THEN "moderate"
    ELSE "simple"

ComplexityResult(complexity_score) ==
    [raised |-> "", classification |-> Classification(complexity_score),
     complexity_score |-> complexity_score]

classify_page_complexity(df) == ComplexityResult(ComplexityScore(df))

---------------------------------------------------------------------------
(* One page under classify_page_complexity *)

MaxHeaders == 5
MaxTotals == 3
MaxEntries == 31

\* How the rows of a page are grouped by braces: the column is lacking;
\* no row is grouped; the first row alone is grouped; the first row holds
\* NaN and no row is grouped; every row holds null; all rows are in one
\* group; the rows alternate between two groups
BracePatterns == {"absent", "blank", "one", "nan", "null", "same", "two"}

BraceId(pattern, i) ==
    CASE pattern = "absent" -> VMissing
      [] pattern = "blank" -> VStr(<<>>)
      [] pattern = "one" -> IF i = 1 THEN VStr(<<"A">>) ELSE VStr(<<>>)
      [] pattern = "nan" -> IF i = 1 THEN VNaN ELSE VStr(<<>>)
      [] pattern = "null" -> VNone
      [] pattern = "same" -> VStr(<<"A">>)
      [] pattern = "two" -> IF i % 2 = 1 THEN VStr(<<"A">>) ELSE VStr(<<"B">>)

\* The row_type of row i of a page of h section headers, then t totals,
\* then entries
TypeAt(h, t, i) ==
    IF i <= h THEN "section_header" ELSE IF i <= h + t THEN "total" ELSE "entry"

ComplexityPage(h, t, n, pattern, page_type) ==
    [i \in 1..(h + t + n) |->
        [row_type |-> TypeAt(h, t, i),
         group_brace_id |-> BraceId(pattern, i),
         page_type |-> page_type]]

ComplexityPages ==
    {ComplexityPage(h, t, n, pattern, page_type) :
        h \in 0..MaxHeaders, t \in 0..MaxTotals, n \in 0..MaxEntries,
        pattern \in BracePatterns,
        page_type \in {VMissing, VStr(T_ledger), VStr(T_balance_sheet)}}

InitComplexity ==
    /\ df_page \in ComplexityPages
    /\ args = <<>>
    /\ row = Nil
    /\ locals = Nil
    /\ ret = Nil
    /\ pc = "start"

ClassifyPageComplexity ==
    /\ pc = "start"
    /\ ret' = classify_page_complexity(df_page)
    /\ pc' = "classify_page_complexity"
    /\ UNCHANGED <<args, row, df_page, locals>>

NextComplexity == ClassifyPageComplexity

SpecComplexity == InitComplexity /\ [][NextComplexity]_vars


\* The rows of a page typed so
RowsTyped(df, label) == {i \in 1..Len(df) : df[i].row_type = label}

\* Some row of the page carries a brace group id that is not empty (the
\* empty text, null, NaN and a lacking column are no group)
HasBraceGroup(df) ==
    \E i \in 1..Len(df) :
        df[i].group_brace_id.k = "str" /\ df[i].group_brace_id.s # <<>>

\* The page is a balance sheet
IsBalanceSheet(df) ==
    \E i \in 1..Len(df) : df[i].page_type = VStr(T_balance_sheet)

Points(b, n) == IF b THEN n ELSE 0

\* The score as the claim adds it up
ClaimedScore(df) ==
    (IF Len(df) > 30 THEN 2 ELSE Points(Len(df) > 15, 1))
    + (IF Cardinality(RowsTyped(df, "section_header")) > 3 THEN 2
       ELSE Points(Cardinality(RowsTyped(df, "section_header")) > 1, 1))
    + Points(Cardinality(RowsTyped(df, "total")) > 1, 1)
    + Points(HasBraceGroup(df), 1)
    + Points(IsBalanceSheet(df), 2)

ComplexityScoreEight ==
    /\ pc = "classify_page_complexity"
    /\ ret.complexity_score = 8

=============================================================================
